---- MODULE Spec2Model ----
\* A state-machine model of geomockimages.imagecreator.GeoMockImage:
\* create -> add_img_pattern -> add_change_pixels (get_change_spot_sizes,
\* get_change_spot_indices, apply_change).  Pixels are pairs <<y, x>> with
\* 0-based coordinates, arrays are functions over the grid's pixels.
EXTENDS Integers, Sequences, FiniteSets, TLC

\* ---------------------------------------------------------------- bounds
MaxX == 3
MaxY == 2
\* the largest side of a grid that change pixels are grown on
MaxChangeSide == 2
MaxBands == 2
MaxChange == 2
MaxBudget == 2
MaxSizesBudget == 12
\* the most bands of a direct call of add_img_pattern
MaxPatternBands == 5
\* the largest nodata_fill
MaxFill == 3

\* ------------------------------------------------------ program constants
\* rng.integers(1, 11): the exclusive upper end of a spot size draw
SpotSizeHigh == 11
\* medfilt's default kernel is 3 x 3: the median is the 5th of 9 values
MedianRank == 5
\* np.clip(data_ar, 1, None)
ClipMin == 1
\* change_factor = 1.3, as the ratio ChangeNum / ChangeDen
ChangeNum == 13
ChangeDen == 10
\* the stand-in for a seed argument of None
NoSeed == -1
\* the stand-in for self.nodata = None
NoNodata == -2
\* the stand-in for a band without a description
NoDescription == 0

\* LC_CLASSES_OPTICAL.values(), in insertion order
LC_CLASSES_OPTICAL ==
    << [avg |-> <<170, 300, 450, 150>>,   std |-> <<10, 10, 10, 10>>],
       [avg |-> <<600, 600, 600, 900>>,   std |-> <<100, 100, 100, 100>>],
       [avg |-> <<800, 800, 800, 1000>>,  std |-> <<150, 150, 150, 150>>],
       [avg |-> <<250, 450, 450, 1300>>,  std |-> <<30, 30, 30, 30>>],
       [avg |-> <<300, 500, 500, 1100>>,  std |-> <<100, 100, 100, 100>>] >>

\* LC_CLASSES_SAR.values(), in insertion order
LC_CLASSES_SAR ==
    << [avg |-> <<30, 50>>,   std |-> <<10, 10>>],
       [avg |-> <<60, 140>>,  std |-> <<30, 50>>],
       [avg |-> <<140, 300>>, std |-> <<50, 150>>],
       [avg |-> <<90, 180>>,  std |-> <<30, 40>>],
       [avg |-> <<70, 140>>,  std |-> <<30, 80>>] >>

\* directions = ["u", "d", "r", "l"]
directions == {"u", "d", "r", "l"}

\* ---------------------------------------------------------------- inputs
ImageTypes == {"optical", "SAR", "sar", "Optical", "radar"}
DataTypes == {"uint8", "uint16"}
\* the seeds a generator can run on: the seed a caller passes, or the one
\* fresh entropy yields for a seed of None
Seeds == {1, 2}
\* the seed arguments a caller passes
SeedArgs == {NoSeed, 1}
NoiseIntensities == {1, 2}
\* the nodata arguments of the constructor: -1 asks for no nodata value
NodataArgs == {-1, 0, 5}

\* ------------------------------------------------------------ pure helpers
RECURSIVE SumSeq(_)
\* Python's sum() of a list
SumSeq(s) == IF s = <<>> THEN 0 ELSE Head(s) + SumSeq(Tail(s))

\* the pixels of a (ys, xs) array
Pixels(ys, xs) == (0 .. ys - 1) \X (0 .. xs - 1)

\* np.rint(np.random.rand() * (size - 1)): every index 0..size-1 can come out
SeedPixels(ys, xs) == Pixels(ys, xs)

\* the candidate pixel of one move of the walk (the match statement)
NewPix(last, nextmove) ==
    CASE nextmove = "u" -> <<last[1] + 1, last[2]>>
      [] nextmove = "d" -> <<last[1] - 1, last[2]>>
      [] nextmove = "l" -> <<last[1], last[2] - 1>>
      [] nextmove = "r" -> <<last[1], last[2] + 1>>

\* a variant of the bounds check that also rejects a negative x
OutOfBoundsBothAxes(newpix, ys, xs) ==
    newpix[1] >= ys \/ newpix[2] >= xs \/ newpix[1] < 0 \/ newpix[2] < 0

\* the bounds check of the walk, as written: newpix[0] < 0 is tested twice and
\* newpix[1] < 0 never
OutOfBounds(newpix, ys, xs) ==
    newpix[1] >= ys \/ newpix[2] >= xs \/ newpix[1] < 0 \/ newpix[1] < 0

\* change_mask[idxs] = True raises IndexError when an index is out of range
\* for its axis; a negative index -k with k <= size counts from the end
IndexInRange(p, ys, xs) ==
    /\ p[1] >= -ys /\ p[1] < ys
    /\ p[2] >= -xs /\ p[2] < xs

\* the array position numpy's indexing resolves a (possibly negative) index to
WrapIndex(p, ys, xs) ==
    << IF p[1] < 0 THEN p[1] + ys ELSE p[1],
       IF p[2] < 0 THEN p[2] + xs ELSE p[2] >>

\* the True pixels of the mask built from the recorded pixels
MaskOf(recorded, ys, xs) == { WrapIndex(p, ys, xs) : p \in recorded }

\* ------------------------------------------------- add_img_pattern helpers
\* skimage.draw.random_shapes is outside the repository: a generator seeded
\* with s yields a fixed grayscale grid valued 0..255.  GrayOf is a small
\* stand-in for that function of the seed.
GrayOf(s, p) == (s * 89 + p[1] * 57 + p[2] * 131) % 256

\* lines 201-205, applied in order to one grayscale value
Label(g) ==
    LET a == IF g < 55 THEN 1 ELSE g
        b == IF a >= 55 /\ a < 105 THEN 2 ELSE a
        c == IF b >= 105 /\ b < 155 THEN 3 ELSE b
        d == IF c >= 155 /\ c < 205 THEN 4 ELSE c
    IN IF d >= 205 /\ d <= 255 THEN 5 ELSE d

\* np.random.default_rng(seed=s) is outside the repository: the standard
\* normal deviate it yields for pixel p, in whole standard deviations.  A
\* generator built again with the same seed yields the same deviates.
ZOf(s, p) == ((s * 3 + p[1] * 5 + p[2] * 7) % 5) - 2

\* rng.normal(loc, scale) for the deviate z
Normal(loc, scale, z) == loc + scale * z

\* a variant whose fallback is the first band's entry
StatAtFirst(stats, b) == IF b < Len(stats) THEN stats[b + 1] ELSE stats[1]

\* lc_class[key][band_idx], with the IndexError fallback to lc_class[key][-1]
StatAt(stats, b) == IF b < Len(stats) THEN stats[b + 1] ELSE stats[Len(stats)]

\* the class-stats table add_img_pattern selects
ClassStats(image_type) ==
    IF image_type = "optical" THEN LC_CLASSES_OPTICAL ELSE LC_CLASSES_SAR

\* str.lower() on the image types of the model
LowerCase(image_type) ==
    CASE image_type = "SAR" -> "sar"
      [] image_type = "Optical" -> "optical"
      [] OTHER -> image_type

\* a variant of the check that compares the lower-cased names
SupportedIgnoringCase(image_type) ==
    LowerCase(image_type) = "optical" \/ LowerCase(image_type) = "sar"

\* the image types lines 213-218 accept
Supported(image_type) == image_type = "optical" \/ image_type = "SAR"

\* the largest value of an unsigned integer data type
IntMax(data_type) == IF data_type = "uint8" THEN 255 ELSE 65535

\* a variant of the cast that keeps every value as it is
CastToNothing(data_type, v, outcome) == v

\* The cast of a whole float value to the integer data type.  Out of the
\* type's range the C conversion is undefined: outcome names what the
\* build yields, the value modulo 2^w or the nearest end of the range.
CastTo(data_type, v, outcome) ==
    IF v >= 0 /\ v <= IntMax(data_type) THEN v
    ELSE IF outcome = "wrap" THEN v % (IntMax(data_type) + 1)
    ELSE IF v < 0 THEN 0 ELSE IntMax(data_type)

UbOutcomes == {"wrap", "saturate"}

\* the 3 x 3 neighbourhood of p in the array a, zero padded
Neighbourhood(a, p) ==
    [k \in 1 .. 9 |->
        LET q == <<p[1] + ((k - 1) \div 3) - 1, p[2] + ((k - 1) % 3) - 1>>
        IN IF q \in DOMAIN a THEN a[q] ELSE 0]

\* the median of the nine values of s
Median(s) ==
    CHOOSE v \in { s[k] : k \in 1 .. 9 } :
        /\ Cardinality({ k \in 1 .. 9 : s[k] < v }) < MedianRank
        /\ Cardinality({ k \in 1 .. 9 : s[k] <= v }) >= MedianRank

\* signal.medfilt(data_ar)
Medfilt(a) == [p \in DOMAIN a |-> Median(Neighbourhood(a, p))]

\* a variant of the clip that lets every value through
ClipNothing(a) == a

\* np.clip(data_ar, 1, None)
Clip(a) == [p \in DOMAIN a |-> IF a[p] < ClipMin THEN ClipMin ELSE a[p]]

\* lines 211-234: the band after the loop over the classes; nseeds[c] is the
\* seed of the generator that draws class c's values
Sampled(img, image_type, data_type, b, noise_intensity, nseeds, outcome) ==
    [p \in DOMAIN img |->
        LET lc_class == ClassStats(image_type)[img[p]]
        IN CastTo(data_type,
                  Normal(StatAt(lc_class.avg, b),
                         StatAt(lc_class.std, b) * noise_intensity,
                         ZOf(nseeds[img[p]], p)),
                  outcome)]

\* lines 236-237: median filter, cast, clip
Smoothed(a) == Clip(Medfilt(a))

\* bands[i][spot_indices] * change_factor, cast back to the band's type
ChangedValue(data_type, v, outcome) ==
    CastTo(data_type, (v * ChangeNum) \div ChangeDen, outcome)

\* one band after line 370
ChangedBand(band, mask, data_type, outcome) ==
    [p \in DOMAIN band |->
        IF p \in mask THEN ChangedValue(data_type, band[p], outcome)
        ELSE band[p]]

\* ---------------------------------------------------------------- state
VARIABLES
    entry,              \* the public method that was called
    pc,                 \* the position in the code
    err,                \* the exception that ended the call, or "none"
    self,               \* the constructor's arguments
    ub,                 \* what the build's out-of-range float-to-int cast yields
    args,               \* create's arguments
    image,              \* the label raster
    bands,              \* the list of band arrays
    band_idx,           \* add_img_pattern's loop counter
    drawn,              \* number of calls of normal() made so far
    pixels_left,        \* get_change_spot_sizes
    change_patches,     \* get_change_spot_sizes
    spot_sizes,         \* get_change_spot_indices
    spot_sizes_orig,
    yx,
    i,
    next_step,
    pxls,
    change_pixels_set,  \* the distinct elements of the list change_pixels
    remaining_pxls,
    change_mask,        \* the True pixels of the returned mask
    applied,            \* per band, how many times apply_change multiplied it
    mask_runs,          \* how many masks add_change_pixels has generated
    result,             \* what the called method returned
    run,                \* 1 for the first call of a pair, 2 for the second
    prev,               \* the arguments and outputs of the first call
    file,               \* what is stored at the image's path
    tmp,                \* what is stored at the path with ".tmp" appended
    original,           \* what was stored at the image's path when to_cog began
    converted,          \* how the conversion step of to_cog ended
    cog_ret             \* what to_cog returned

cfgVars == <<entry, self, args, ub>>
patternVars == <<image, bands, band_idx, drawn>>
sizesVars == <<pixels_left, change_patches>>
walkVars == <<spot_sizes, spot_sizes_orig, yx, i, next_step, pxls,
              change_pixels_set, remaining_pxls>>
ghostVars == <<applied, mask_runs>>
pairVars == <<run, prev>>
fileVars == <<file, tmp, original, converted, cog_ret>>
vars == <<entry, pc, err, self, ub, args, image, bands, band_idx, drawn,
          pixels_left, change_patches, spot_sizes, spot_sizes_orig, yx, i,
          next_step, pxls, change_pixels_set, remaining_pxls, change_mask,
          applied, mask_runs, result, run, prev, file, tmp, original,
          converted, cog_ret>>

\* a path at which nothing is stored
Missing == [exists |-> FALSE, layers |-> <<>>, descs |-> <<>>, cog |-> FALSE]

\* band_desc = None, and band_desc = a list of descriptions
NoDesc == [given |-> FALSE, list |-> <<>>]
DescList(l) == [given |-> TRUE, list |-> l]

\* the values the variables hold before the code assigns them
BlankPattern ==
    /\ image = <<>>
    /\ bands = <<>>
    /\ band_idx = 0
    /\ drawn = 0

BlankSizes ==
    /\ pixels_left = 0
    /\ change_patches = <<>>

BlankWalk ==
    /\ spot_sizes = <<>>
    /\ spot_sizes_orig = <<>>
    /\ yx = <<>>
    /\ i = 0
    /\ next_step = 0
    /\ pxls = <<>>
    /\ change_pixels_set = {}
    /\ remaining_pxls = 0

BlankRest ==
    /\ err = "none"
    /\ change_mask = {}
    /\ applied = <<>>
    /\ mask_runs = 0
    /\ result = <<>>
    /\ run = 1
    /\ prev = <<>>
    /\ file = Missing
    /\ tmp = Missing
    /\ original = Missing
    /\ converted = "none"
    /\ cog_ret = "none"

\* create's defaults, for the calls that do not read its arguments
DefaultArgs ==
    [seed |-> NoSeed, noise_seed |-> NoSeed, noise_intensity |-> 1,
     change_pixels |-> 0, band_desc |-> NoDesc]

\* the object of the repository's tests of the two change-spot methods, with
\* the grid left open
TestImage(ys, xs) ==
    [xsize |-> xs, ysize |-> ys, num_bands |-> 1, data_type |-> "uint16",
     image_type |-> "SAR", nodata |-> 0, nodata_fill |-> 0, cog |-> FALSE]

\* ------------------------------------------------ get_change_spot_sizes
\* lines 283-285: pixels_left = change_pixels, change_patches = []
EnterSizes(n) ==
    /\ pixels_left' = n
    /\ change_patches' = <<>>

\* a variant that never truncates the last spot
PatchTakenNoTruncation(left, patch_size) == patch_size

\* the spot size one iteration appends for a draw patch_size
PatchTaken(left, patch_size) ==
    IF left - patch_size < 0 THEN left ELSE patch_size

\* one iteration of the while loop, for the draw patch_size in 1..10
SizesDraw ==
    /\ pc = "sizes"
    /\ pixels_left > 0
    /\ \E patch_size \in 1 .. SpotSizeHigh - 1 :
          LET taken == PatchTaken(pixels_left, patch_size)
              left == IF pixels_left - patch_size < 0 THEN 0 ELSE pixels_left
          IN /\ change_patches' = Append(change_patches, taken)
             /\ pixels_left' = left - taken
    /\ UNCHANGED <<pc, err, cfgVars, patternVars, walkVars, change_mask,
                   ghostVars, result, pairVars, fileVars>>

\* lines 304-307: the locals of get_change_spot_indices for the list sizes
EnterIndices(sizes) ==
    /\ spot_sizes' = sizes
    /\ spot_sizes_orig' = sizes
    /\ change_pixels_set' = {}
    /\ remaining_pxls' = SumSeq(sizes)
    /\ yx' = <<>>
    /\ i' = 0
    /\ next_step' = 0
    /\ pxls' = <<>>

\* the loop is over: a direct call returns the list
SizesReturn ==
    /\ pc = "sizes"
    /\ pixels_left <= 0
    /\ entry = "get_change_spot_sizes"
    /\ pc' = "returned"
    /\ result' = change_patches
    /\ UNCHANGED <<err, cfgVars, patternVars, sizesVars, walkVars, change_mask,
                   ghostVars, pairVars, fileVars>>

\* the loop is over inside add_change_pixels: line 270 calls
\* get_change_spot_indices with the list
SizesToIndices ==
    /\ pc = "sizes"
    /\ pixels_left <= 0
    /\ entry = "create"
    /\ pc' = "indices"
    /\ EnterIndices(change_patches)
    /\ UNCHANGED <<err, cfgVars, patternVars, sizesVars, change_mask,
                   ghostVars, result, pairVars, fileVars>>

\* a direct call get_change_spot_sizes(change_pixels)
InitSizes ==
    /\ BlankPattern /\ BlankWalk /\ BlankRest
    /\ entry = "get_change_spot_sizes"
    /\ pc = "sizes"
    /\ self = TestImage(1, 1)
    /\ ub = "wrap"
    /\ \E n \in 0 .. MaxSizesBudget :
          /\ args = [DefaultArgs EXCEPT !.change_pixels = n]
          /\ pixels_left = n
    /\ change_patches = <<>>

NextSizes ==
    \/ SizesDraw
    \/ SizesReturn

SpecSizes == InitSizes /\ [][NextSizes]_vars

\* the loop of get_change_spot_sizes always gets its next iteration
FairSpecSizes == SpecSizes /\ WF_vars(NextSizes)

LastPix == pxls[Len(pxls)]

\* a variant of the draw that records the seed pixel as changed
SampleSeedsRecorded ==
    /\ pc = "indices"
    /\ remaining_pxls > 0
    /\ Len(spot_sizes) >= 1
    /\ \E seed \in SeedPixels(self.ysize, self.xsize) :
          /\ yx' = <<seed>>
          /\ pxls' = <<seed>>
          /\ change_pixels_set' = change_pixels_set \cup {seed}
    /\ i' = 1
    /\ next_step' = 0
    /\ pc' = "walk"
    /\ UNCHANGED <<err, cfgVars, patternVars, sizesVars, spot_sizes,
                   spot_sizes_orig, remaining_pxls, change_mask, ghostVars,
                   result, pairVars, fileVars>>

\* Line 309 holds, lines 311-315 draw one seed pixel per spot and the for loop
\* starts its first spot at line 318.  The rows of yx are independent draws,
\* and row i is read only when spot i starts: yx holds the row of the spot
\* that is being grown.
SampleSeeds ==
    /\ pc = "indices"
    /\ remaining_pxls > 0
    /\ Len(spot_sizes) >= 1
    /\ \E seed \in SeedPixels(self.ysize, self.xsize) :
          /\ yx' = <<seed>>
          /\ pxls' = <<seed>>
    /\ i' = 1
    /\ next_step' = 0
    /\ pc' = "walk"
    /\ UNCHANGED <<err, cfgVars, patternVars, sizesVars, spot_sizes,
                   spot_sizes_orig, change_pixels_set, remaining_pxls,
                   change_mask, ghostVars, result, pairVars, fileVars>>

\* one iteration of the inner for loop (lines 320-345) with the direction
\* nextmove: the candidate is dropped by the bounds check or appended to the
\* path and to change_pixels
Step ==
    /\ pc = "walk"
    /\ next_step < spot_sizes[i]
    /\ next_step' = next_step + 1
    /\ \E nextmove \in directions :
          LET newpix == NewPix(LastPix, nextmove)
          IN IF OutOfBounds(newpix, self.ysize, self.xsize)
             THEN UNCHANGED <<pxls, change_pixels_set>>
             ELSE /\ pxls' = Append(pxls, newpix)
                  /\ change_pixels_set' = change_pixels_set \cup {newpix}
    /\ UNCHANGED <<pc, err, cfgVars, patternVars, sizesVars, spot_sizes,
                   spot_sizes_orig, yx, i, remaining_pxls, change_mask,
                   ghostVars, result, pairVars, fileVars>>

\* the inner loop is exhausted and the outer for loop has a next spot
NextSpot ==
    /\ pc = "walk"
    /\ next_step >= spot_sizes[i]
    /\ i < Len(spot_sizes)
    /\ i' = i + 1
    /\ \E seed \in SeedPixels(self.ysize, self.xsize) :
          /\ yx' = <<seed>>
          /\ pxls' = <<seed>>
    /\ next_step' = 0
    /\ UNCHANGED <<pc, err, cfgVars, patternVars, sizesVars, spot_sizes,
                   spot_sizes_orig, change_pixels_set, remaining_pxls,
                   change_mask, ghostVars, result, pairVars, fileVars>>

\* the shortfall line 351 computes
Shortfall(orig, recorded) == SumSeq(orig) - Cardinality(recorded)

\* a variant of the retry that grows every original spot again
RetryAllSpots(remaining) == spot_sizes_orig

\* line 352: the spots of the next round, spot_sizes = [remaining_pxls]
RetrySizes(remaining) == <<remaining>>

\* Both for loops are exhausted: lines 349-352 deduplicate, compute the
\* shortfall and make it the only spot of the next round.  The round's yx, i,
\* next_step and pxls are not read again before they are assigned: they are
\* cleared here.
EndRound ==
    /\ pc = "walk"
    /\ next_step >= spot_sizes[i]
    /\ i >= Len(spot_sizes)
    /\ remaining_pxls' = Shortfall(spot_sizes_orig, change_pixels_set)
    /\ spot_sizes' = RetrySizes(remaining_pxls')
    /\ yx' = <<>>
    /\ i' = 0
    /\ next_step' = 0
    /\ pxls' = <<>>
    /\ pc' = "indices"
    /\ UNCHANGED <<err, cfgVars, patternVars, sizesVars, spot_sizes_orig,
                   change_pixels_set, change_mask, ghostVars, result,
                   pairVars, fileVars>>

\* the while loop is over and every recorded pixel indexes the array
MaskBuilds ==
    /\ pc = "indices"
    /\ remaining_pxls <= 0
    /\ \A p \in change_pixels_set : IndexInRange(p, self.ysize, self.xsize)

\* lines 354-359 of a direct call: the mask is returned
MaskReturn ==
    /\ MaskBuilds
    /\ entry = "get_change_spot_indices"
    /\ change_mask' = MaskOf(change_pixels_set, self.ysize, self.xsize)
    /\ result' = change_mask'
    /\ pc' = "returned"
    /\ UNCHANGED <<err, cfgVars, patternVars, sizesVars, walkVars, ghostVars,
                   pairVars, fileVars>>

\* line 357 raises IndexError: a recorded pixel lies left of column -xsize
MaskIndexError ==
    /\ pc = "indices"
    /\ remaining_pxls <= 0
    /\ \E p \in change_pixels_set : ~IndexInRange(p, self.ysize, self.xsize)
    /\ err' = "IndexError"
    /\ pc' = "raised"
    /\ UNCHANGED <<cfgVars, patternVars, sizesVars, walkVars, change_mask,
                   ghostVars, result, pairVars, fileVars>>

\* the lists of spot sizes a direct call is given
SizeLists ==
    { s \in UNION { [1 .. n -> 1 .. MaxBudget] : n \in 0 .. MaxBudget } :
        SumSeq(s) <= MaxBudget }

\* a direct call get_change_spot_indices(spot_sizes), lines 304-307 done
InitIndices ==
    /\ BlankPattern /\ BlankSizes /\ BlankRest
    /\ entry = "get_change_spot_indices"
    /\ pc = "indices"
    /\ \E ys \in 1 .. MaxChangeSide, xs \in 1 .. MaxChangeSide :
          self = TestImage(ys, xs)
    /\ ub = "wrap"
    /\ args = DefaultArgs
    /\ \E s \in SizeLists :
          /\ spot_sizes = s
          /\ spot_sizes_orig = s
          /\ remaining_pxls = SumSeq(s)
    /\ change_pixels_set = {}
    /\ yx = <<>>
    /\ i = 0
    /\ next_step = 0
    /\ pxls = <<>>

NextIndices ==
    \/ SampleSeeds
    \/ Step
    \/ NextSpot
    \/ EndRound
    \/ MaskReturn
    \/ MaskIndexError

SpecIndices == InitIndices /\ [][NextIndices]_vars

\* a step of the walk that records a pixel not recorded before
NewPixelStep == Step /\ change_pixels_set' # change_pixels_set

\* a draw of a seed pixel that has an unrecorded pixel one accepted move away
SeedNextToNew ==
    /\ SampleSeeds
    /\ \E nextmove \in directions :
          /\ ~OutOfBounds(NewPix(yx'[1], nextmove), self.ysize, self.xsize)
          /\ NewPix(yx'[1], nextmove) \notin change_pixels_set

\* The walk's random choices are fair: the loops go on, and a draw that has a
\* positive chance again and again is made.  Strong fairness is stated for the
\* two kinds of draw the exit depends on; both follow from every seed pixel and
\* every direction being drawn infinitely often at every position.
FairSpecIndices ==
    /\ SpecIndices
    /\ WF_vars(NextIndices)
    /\ SF_vars(SeedNextToNew)
    /\ SF_vars(NewPixelStep)

\* the budget of a call of get_change_spot_indices
Budget == SumSeq(spot_sizes_orig)

\* C1: with a budget N <= xsize * ysize, get_change_spot_indices returns a mask
\* over the grid with exactly N True pixels.
C1_MaskCountIsBudget ==
    (entry = "get_change_spot_indices" /\ Budget <= self.xsize * self.ysize) =>
        /\ pc # "raised"
        /\ pc = "returned" =>
              /\ change_mask \subseteq Pixels(self.ysize, self.xsize)
              /\ Cardinality(change_mask) = Budget

\* C6: for every grid and every budget 1 <= N <= xsize * ysize the convergence
\* loop eventually exits, with N distinct recorded pixels, under fair random
\* choices.
C6_LoopExits ==
    <>((entry = "get_change_spot_indices" /\ Budget >= 1
          /\ Budget <= self.xsize * self.ysize) =>
        (pc \in {"returned", "raised"} /\ remaining_pxls = 0
            /\ Cardinality(change_pixels_set) = Budget))

\* the loop has exited on a 1 x 1 grid, and on a full one-pixel-wide grid
C6_Witness ==
    /\ pc = "returned"
    /\ remaining_pxls = 0
    /\ Cardinality(change_pixels_set) = Budget
    /\ Budget = self.xsize * self.ysize
    /\ self.xsize = 1

\* --------------------------------------------- create / add_img_pattern
\* the seed a generator built with the argument seed runs on: the argument,
\* or fresh entropy when it is None
SeedUsed(seed, s) == IF seed = NoSeed THEN s \in Seeds ELSE s = seed

\* lines 192-209: the label raster from random_shapes, and the empty band list
RandomShapes ==
    /\ pc = "create"
    /\ \E s \in Seeds :
          /\ SeedUsed(args.seed, s)
          /\ image' = [p \in Pixels(self.ysize, self.xsize) |->
                          Label(GrayOf(s, p))]
    /\ bands' = <<>>
    /\ band_idx' = 0
    /\ applied' = <<>>
    /\ pc' = "band_loop"
    /\ UNCHANGED <<err, cfgVars, drawn, sizesVars, walkVars, change_mask,
                   mask_runs, result, pairVars, fileVars>>

\* a variant of the check that runs after the first class was sampled
RaiseUnsupportedLate ==
    /\ pc = "band_loop"
    /\ band_idx < self.num_bands
    /\ ~Supported(self.image_type)
    /\ drawn' = drawn + 1
    /\ err' = "Exception"
    /\ pc' = "raised"
    /\ UNCHANGED <<cfgVars, image, bands, band_idx, sizesVars, walkVars,
                   change_mask, ghostVars, result, pairVars, fileVars>>

\* lines 210-218 with an image type that is neither "optical" nor "SAR"
RaiseUnsupported ==
    /\ pc = "band_loop"
    /\ band_idx < self.num_bands
    /\ ~Supported(self.image_type)
    /\ err' = "Exception"
    /\ pc' = "raised"
    /\ UNCHANGED <<cfgVars, patternVars, sizesVars, walkVars, change_mask,
                   ghostVars, result, pairVars, fileVars>>

\* lines 210-247: one iteration of the while loop up to the call of
\* add_change_pixels, which sits inside the loop
SynthBand ==
    /\ pc = "band_loop"
    /\ band_idx < self.num_bands
    /\ Supported(self.image_type)
    /\ \E nseeds \in [1 .. 5 -> Seeds] :
          /\ \A c \in 1 .. 5 : SeedUsed(args.noise_seed, nseeds[c])
          /\ bands' = Append(bands,
                             Smoothed(Sampled(image, self.image_type,
                                              self.data_type, band_idx,
                                              args.noise_intensity, nseeds,
                                              ub)))
    /\ drawn' = drawn + 5
    /\ band_idx' = band_idx + 1
    /\ applied' = Append(applied, <<>>)
    /\ IF args.change_pixels > 0
       THEN /\ pc' = "sizes"
            /\ EnterSizes(args.change_pixels)
       ELSE UNCHANGED <<pc, sizesVars>>
    /\ UNCHANGED <<err, cfgVars, image, walkVars, change_mask, mask_runs,
                   result, pairVars, fileVars>>

\* lines 354-359 inside add_change_pixels: the mask goes to apply_change
MaskToApply ==
    /\ MaskBuilds
    /\ entry = "create"
    /\ change_mask' = MaskOf(change_pixels_set, self.ysize, self.xsize)
    /\ mask_runs' = mask_runs + 1
    /\ pc' = "apply"
    /\ UNCHANGED <<err, cfgVars, patternVars, sizesVars, walkVars, applied,
                   result, pairVars, fileVars>>

\* the bands after apply_change has multiplied the first n of them
BandsChanged(n) ==
    [b \in 1 .. Len(bands) |->
        IF b <= n
        THEN ChangedBand(bands[b], change_mask, self.data_type, ub)
        ELSE bands[b]]

AppliedAfter(n) ==
    [b \in 1 .. Len(applied) |->
        IF b <= n THEN Append(applied[b], change_mask) ELSE applied[b]]

\* apply_change, lines 369-372, when the list holds num_bands bands
ApplyChange ==
    /\ pc = "apply"
    /\ Len(bands) >= self.num_bands
    /\ bands' = BandsChanged(self.num_bands)
    /\ applied' = AppliedAfter(self.num_bands)
    /\ pc' = "band_loop"
    /\ UNCHANGED <<err, cfgVars, image, band_idx, drawn, sizesVars, walkVars,
                   change_mask, mask_runs, result, pairVars, fileVars>>

\* apply_change when the list is shorter than num_bands: bands[i] raises
\* IndexError after the bands that exist were multiplied
ApplyChangeIndexError ==
    /\ pc = "apply"
    /\ Len(bands) < self.num_bands
    /\ bands' = BandsChanged(Len(bands))
    /\ applied' = AppliedAfter(Len(bands))
    /\ err' = "IndexError"
    /\ pc' = "raised"
    /\ UNCHANGED <<cfgVars, image, band_idx, drawn, sizesVars, walkVars,
                   change_mask, mask_runs, result, pairVars, fileVars>>

\* lines 95-98: the constructor stores None for a nodata argument of -1
NodataOf(nodata) == IF nodata = -1 THEN NoNodata ELSE nodata

\* a variant that writes the stored nodata value as it is
NodataValAsStored(nodata) == nodata

\* lines 139-142: the value that stands for nodata in the layers
NodataVal(nodata) == IF nodata = NoNodata THEN 0 ELSE nodata

\* a variant of the fill that stops one row and one column early
FilledShort(layer, k, v) ==
    [p \in DOMAIN layer |->
        IF p[1] < k - 1 /\ p[2] < k - 1 THEN v ELSE layer[p]]

\* line 156: layer[0 : k, 0 : k] = v, the slices ending at the array's edge
Filled(layer, k, v) ==
    [p \in DOMAIN layer |-> IF p[1] < k /\ p[2] < k THEN v ELSE layer[p]]

\* band_list after the loop of lines 155-157 has filled every layer in place
FilledBands ==
    [b \in 1 .. Len(bands) |->
        Filled(bands[b], self.nodata_fill, NodataVal(self.nodata))]

\* a variant of the except clause that catches nothing
CaughtNothing(exc) == FALSE

\* line 161: except IndexError
Caught(exc) == exc = "IndexError"

\* lines 158-165 for the band band_id (0-based): the description the file gets,
\* NoDescription when band_desc is None or band_desc[band_id] raises IndexError
DescOf(band_desc, band_id) ==
    IF band_desc.given /\ band_id < Len(band_desc.list)
    THEN band_desc.list[band_id + 1]
    ELSE NoDescription

\* the 0-based index of the first band whose description lookup raises an
\* exception that line 161 does not catch, or num_bands when there is none
FirstUncaught ==
    LET raising == { band_id \in 0 .. self.num_bands - 1 :
                        /\ args.band_desc.given
                        /\ band_id >= Len(args.band_desc.list)
                        /\ ~Caught("IndexError") }
    IN IF raising = {} THEN self.num_bands
       ELSE CHOOSE band_id \in raising : \A o \in raising : band_id <= o

\* what lines 143-165 leave at the image's path when the loop has written
\* the first n bands
Written(n) ==
    [exists |-> TRUE,
     layers |-> [b \in 1 .. n |-> FilledBands[b]],
     descs |-> [b \in 1 .. n |-> DescOf(args.band_desc, b - 1)],
     cog |-> FALSE]

\* bands after the loop has filled the first n layers, and one more when the
\* loop was left by an exception raised after the fill of that layer
BandsFilled(n) ==
    [b \in 1 .. Len(bands) |->
        IF b <= n + 1 THEN FilledBands[b] ELSE bands[b]]

\* line 249 and the rest of create, lines 131-169, without cog: the layers
\* are filled and written, and the path and np.array(band_list) are returned
CreateReturn ==
    /\ entry = "create"
    /\ pc = "band_loop"
    /\ band_idx >= self.num_bands
    /\ ~self.cog
    /\ file' = Written(FirstUncaught)
    /\ bands' = BandsFilled(FirstUncaught)
    /\ IF FirstUncaught < self.num_bands
       THEN /\ err' = "IndexError"
            /\ pc' = "raised"
            /\ UNCHANGED result
       ELSE /\ result' = FilledBands
            /\ pc' = "returned"
            /\ UNCHANGED err
    /\ UNCHANGED <<cfgVars, image, band_idx, drawn, sizesVars, walkVars,
                   change_mask, ghostVars, pairVars, tmp, original, converted,
                   cog_ret>>

\* the same with cog: lines 131-167 up to the call of to_cog
CreateToCog ==
    /\ entry = "create"
    /\ pc = "band_loop"
    /\ band_idx >= self.num_bands
    /\ self.cog
    /\ file' = Written(FirstUncaught)
    /\ bands' = BandsFilled(FirstUncaught)
    /\ IF FirstUncaught < self.num_bands
       THEN /\ err' = "IndexError"
            /\ pc' = "raised"
            /\ UNCHANGED original
       ELSE /\ original' = Written(self.num_bands)
            /\ pc' = "cog_rename"
            /\ UNCHANGED err
    /\ UNCHANGED <<cfgVars, image, band_idx, drawn, sizesVars, walkVars,
                   change_mask, ghostVars, result, pairVars, tmp, converted,
                   cog_ret>>

\* A call GeoMockImage(xsize, ysize, num_bands, data_type, image_type).create(
\* seed, noise_seed, noise_intensity, change_pixels), with the constructor's
\* defaults nodata = 0, nodata_fill = 0, cog = False.  Calls that ask for
\* change pixels are modelled with both seeds given, as the repository's pair
\* test makes them, with the default noise intensity scaled to 1, on grids of
\* at most MaxChangeSide pixels a side.  Without
\* a noise seed each of the five generators of each band runs on fresh
\* entropy: such calls are modelled for one band.
InitCreate ==
    /\ BlankPattern /\ BlankSizes /\ BlankWalk /\ BlankRest
    /\ entry = "create"
    /\ pc = "create"
    /\ self \in [xsize : 1 .. MaxX, ysize : 1 .. MaxY, num_bands : 1 .. MaxBands,
                 data_type : DataTypes, image_type : ImageTypes,
                 nodata : {0}, nodata_fill : {0}, cog : {FALSE}]
    /\ ub \in UbOutcomes
    /\ args \in [seed : SeedArgs, noise_seed : SeedArgs,
                 noise_intensity : NoiseIntensities,
                 change_pixels : 0 .. MaxChange, band_desc : {NoDesc}]
    /\ args.change_pixels > 0 =>
          /\ args.seed # NoSeed /\ args.noise_seed # NoSeed
          /\ args.noise_intensity = 1
          /\ self.xsize <= MaxChangeSide /\ self.ysize <= MaxChangeSide
    /\ args.noise_seed = NoSeed => self.num_bands = 1

\* The second call of a pair, as in test_sar_image_1band_pair_change: a new
\* object with the same constructor arguments calls create with the same
\* arguments, or with the same arguments but change_pixels = 0.  The first
\* call's arguments and outputs are kept in prev.
Rerun ==
    /\ pc = "returned"
    /\ entry = "create"
    /\ run = 1
    /\ run' = 2
    /\ prev' = [args |-> args, image |-> image, result |-> result,
                change_mask |-> change_mask]
    /\ \E n \in {args.change_pixels, 0} :
          args' = [args EXCEPT !.change_pixels = n]
    /\ pc' = "create"
    /\ image' = <<>> /\ bands' = <<>> /\ band_idx' = 0 /\ drawn' = 0
    /\ pixels_left' = 0 /\ change_patches' = <<>>
    /\ EnterIndices(<<>>)
    /\ err' = "none" /\ change_mask' = {} /\ applied' = <<>>
    /\ mask_runs' = 0 /\ result' = <<>>
    /\ file' = Missing /\ tmp' = Missing /\ original' = Missing
    /\ converted' = "none" /\ cog_ret' = "none"
    /\ UNCHANGED <<entry, self, ub>>

Init == InitCreate

Next ==
    \/ RandomShapes
    \/ RaiseUnsupported
    \/ SynthBand
    \/ SizesDraw
    \/ SizesToIndices
    \/ SampleSeeds
    \/ Step
    \/ NextSpot
    \/ EndRound
    \/ MaskToApply
    \/ MaskIndexError
    \/ ApplyChange
    \/ ApplyChangeIndexError
    \/ CreateReturn

Spec == Init /\ [][Next]_vars

NextPair == Next \/ Rerun

\* pairs of calls, on grids of at most MaxChangeSide pixels a side
InitPair ==
    InitCreate /\ self.xsize <= MaxChangeSide /\ self.ysize <= MaxChangeSide

SpecPair == InitPair /\ [][NextPair]_vars

\* ------------------------------------------------------------- the claims
\* the pixels at which two arrays of the same shape differ
Differing(a, b) == { p \in DOMAIN a : a[p] # b[p] }

\* both seeds of the call are given
Seeded == args.seed # NoSeed /\ args.noise_seed # NoSeed

\* C2: for a single-band image, create with change_pixels = N and create with
\* change_pixels = 0 (same seeds and noise intensity) return arrays that differ
\* exactly at the N pixels of the change mask.
C2_PairDiffersAtChangePixels ==
    (/\ run = 2 /\ pc = "returned"
     /\ self.num_bands = 1 /\ Seeded
     /\ prev.args.change_pixels > 0
     /\ prev.args.change_pixels <= self.xsize * self.ysize
     /\ args.change_pixels = 0) =>
        /\ Differing(prev.result[1], result[1]) = prev.change_mask
        /\ Cardinality(Differing(prev.result[1], result[1]))
              = prev.args.change_pixels

\* C3: two calls with identical arguments and both seeds given return identical
\* label rasters, band arrays and change masks.
C3_PairIsIdentical ==
    (run = 2 /\ pc = "returned" /\ Seeded /\ prev.args = args) =>
        /\ prev.image = image
        /\ prev.result = result
        /\ prev.change_mask = change_mask

\* C4: with change_pixels > 0, add_img_pattern completes without error for
\* any number of bands, one mask is generated, and every band is multiplied
\* exactly once, with that mask.
C4_ChangeAppliedOncePerBand ==
    (entry = "create" /\ args.change_pixels > 0
        /\ args.change_pixels <= self.xsize * self.ysize
        /\ self.image_type \in {"optical", "SAR"}) =>
        /\ pc # "raised"
        /\ pc = "returned" =>
              /\ mask_runs = 1
              /\ \A b \in 1 .. self.num_bands : applied[b] = <<change_mask>>

\* C7: with an unsupported image type generation fails before any radiometric
\* sample is drawn and without producing a band, for every num_bands.
C7_UnsupportedFailsBeforeSampling ==
    (entry = "create" /\ self.image_type \notin {"optical", "SAR"}) =>
        /\ drawn = 0
        /\ bands = <<>>
        /\ result = <<>>
        /\ pc \in {"create", "band_loop", "raised"}
        /\ pc = "raised" => err = "Exception"
        /\ (pc = "band_loop" /\ self.num_bands >= 1) => ENABLED RaiseUnsupported

\* the call with an unsupported image type and the most bands has failed
C7_Witness ==
    /\ pc = "raised"
    /\ err = "Exception"
    /\ self.image_type = "radar"
    /\ self.num_bands = MaxBands
    /\ image # <<>>

\* C8: the image type check ignores case: any casing of "optical" or "SAR" is
\* accepted, and only the other strings are rejected.
C8_CheckIgnoresCase ==
    entry = "create" =>
        (LowerCase(self.image_type) \in {"optical", "sar"} => err # "Exception")

\* C8, amended: the check compares exactly: "optical" and "SAR" are accepted
\* and select their class-stats table; every other string, other casings
\* included, is rejected.
C8_CheckIsExact ==
    entry = "create" =>
        /\ self.image_type \in {"optical", "SAR"} => err # "Exception"
        /\ self.image_type \notin {"optical", "SAR"} =>
              (bands = <<>> /\ pc # "returned")
        /\ (pc = "band_loop" /\ band_idx < self.num_bands
              /\ self.image_type \notin {"optical", "SAR"}) =>
              ENABLED RaiseUnsupported
        /\ (pc = "band_loop" /\ band_idx = 1 /\ args.noise_seed # NoSeed
              /\ applied[1] = <<>>) =>
              bands[1] = Smoothed(Sampled(image, self.image_type,
                            self.data_type, 0, args.noise_intensity,
                            [c \in 1 .. 5 |-> args.noise_seed], ub))

\* a call with another casing of a supported type has been rejected
C8_Witness ==
    \/ pc = "raised" /\ err = "Exception" /\ self.image_type = "sar"
    \/ pc = "raised" /\ err = "Exception" /\ self.image_type = "Optical"

\* C9: every pixel of every synthesized and smoothed band is >= 1.
C9_BandsAtLeastOne ==
    entry = "create" =>
        \A b \in 1 .. Len(bands) :
            applied[b] = <<>> =>
                \A p \in DOMAIN bands[b] : bands[b][p] >= 1

\* a band was synthesized from a negative sample and holds a value above 1
C9_Witness ==
    /\ bands # <<>>
    /\ \E p \in DOMAIN image :
          Normal(StatAt(ClassStats(self.image_type)[image[p]].avg, 0),
                 StatAt(ClassStats(self.image_type)[image[p]].std, 0)
                    * args.noise_intensity,
                 ZOf(1, p)) < 0
    /\ args.noise_seed = 1
    /\ Supported(self.image_type)
    /\ \E p \in DOMAIN bands[1] : bands[1][p] > 1

\* C10: create returns an array of shape (num_bands, ysize, xsize) with the
\* requested data type.
C10_ReturnedShape ==
    (entry = "create" /\ pc = "returned") =>
        /\ Len(result) = self.num_bands
        /\ \A b \in 1 .. Len(result) :
              /\ DOMAIN result[b] = Pixels(self.ysize, self.xsize)
              /\ \A p \in DOMAIN result[b] :
                    result[b][p] \in 0 .. IntMax(self.data_type)

\* a call for the most bands on the widest grid has returned
C10_Witness ==
    /\ entry = "create"
    /\ pc = "returned"
    /\ self.num_bands = MaxBands
    /\ self.xsize = MaxX
    /\ self.ysize = 1

\* ------------------------------------------- add_img_pattern, called alone
\* line 249: add_img_pattern returns the list of bands to its caller
PatternReturn ==
    /\ entry = "add_img_pattern"
    /\ pc = "band_loop"
    /\ band_idx >= self.num_bands
    /\ result' = bands
    /\ pc' = "returned"
    /\ UNCHANGED <<err, cfgVars, patternVars, sizesVars, walkVars, change_mask,
                   ghostVars, pairVars, fileVars>>

\* A call GeoMockImage(...).add_img_pattern(seed, noise_seed, noise_intensity,
\* 0) with both seeds given, for up to MaxPatternBands bands.
InitPattern ==
    /\ BlankPattern /\ BlankSizes /\ BlankWalk /\ BlankRest
    /\ entry = "add_img_pattern" /\ pc = "create"
    /\ self \in [xsize : 1 .. MaxX, ysize : 1 .. MaxY,
                 num_bands : 1 .. MaxPatternBands,
                 data_type : DataTypes, image_type : ImageTypes,
                 nodata : {0}, nodata_fill : {0}, cog : {FALSE}]
    /\ ub \in UbOutcomes
    /\ args \in [seed : {1}, noise_seed : {1},
                 noise_intensity : NoiseIntensities, change_pixels : {0},
                 band_desc : {NoDesc}]

NextPattern ==
    \/ RandomShapes
    \/ RaiseUnsupported
    \/ SynthBand
    \/ PatternReturn

SpecPattern == InitPattern /\ [][NextPattern]_vars

\* the number of bands the class-stats table of an image type defines
TableWidth(image_type) == IF image_type = "optical" THEN 4 ELSE 2

\* the band whose statistics the claim names for the band index b (0-based)
StatsBand(image_type, b) ==
    IF b >= TableWidth(image_type) THEN TableWidth(image_type) ELSE b + 1

\* the band of index b sampled from the statistics of StatsBand and smoothed
BandFromStats(b) ==
    LET table == IF self.image_type = "optical" THEN LC_CLASSES_OPTICAL
                 ELSE LC_CLASSES_SAR
        k == StatsBand(self.image_type, b)
    IN Smoothed([p \in DOMAIN image |->
           CastTo(self.data_type,
                  Normal(table[image[p]].avg[k],
                         table[image[p]].std[k] * args.noise_intensity,
                         ZOf(args.noise_seed, p)),
                  ub)])

\* C11: for a band index at or beyond the table width synthesis does not fail
\* and uses each class's mean and std of the last defined band; within the
\* width it uses the entry at the band index.
C11_FallbackToLastBand ==
    (entry = "add_img_pattern" /\ self.image_type \in {"optical", "SAR"}) =>
        /\ err = "none"
        /\ pc # "raised"
        /\ Len(bands) = band_idx
        /\ (pc = "band_loop" /\ band_idx >= 1) =>
              bands[band_idx] = BandFromStats(band_idx - 1)
        /\ pc = "returned" => (result = bands /\ Len(result) = self.num_bands)

\* an optical image with a fifth band and a SAR image with a third band whose
\* pixels are not all clipped have been returned
C11_Witness ==
    /\ entry = "add_img_pattern"
    /\ pc = "returned"
    /\ \/ self.image_type = "optical" /\ Len(result) = 5
       \/ self.image_type = "SAR" /\ Len(result) = 3
    /\ \E p \in DOMAIN result[Len(result)] : result[Len(result)][p] > 1

\* ------------------------------------------------------------------ to_cog
\* what a conversion that broke off can leave at the output path
Truncated == [exists |-> TRUE, layers |-> <<>>, descs |-> <<>>, cog |-> FALSE]

\* raster.py line 29: path_to_image.rename(tmp_file_path), the image exists
CogRename ==
    /\ pc = "cog_rename"
    /\ file.exists
    /\ tmp' = file
    /\ file' = Missing
    /\ pc' = "cog_translate"
    /\ UNCHANGED <<err, cfgVars, patternVars, sizesVars, walkVars, change_mask,
                   ghostVars, result, pairVars, original, converted, cog_ret>>

\* line 29 when nothing is stored at the path: FileNotFoundError, which the
\* except clause of lines 51-53 swallows
CogRenameFails ==
    /\ pc = "cog_rename"
    /\ ~file.exists
    /\ converted' = "failed"
    /\ pc' = "cog_unlink"
    /\ UNCHANGED <<err, cfgVars, patternVars, sizesVars, walkVars, change_mask,
                   ghostVars, result, pairVars, file, tmp, original, cog_ret>>

\* lines 31-50, cog_translate succeeds: the converted image is at the path
CogTranslate ==
    /\ pc = "cog_translate"
    /\ file' = [tmp EXCEPT !.cog = TRUE]
    /\ converted' = "ok"
    /\ pc' = "cog_unlink"
    /\ UNCHANGED <<err, cfgVars, patternVars, sizesVars, walkVars, change_mask,
                   ghostVars, result, pairVars, tmp, original, cog_ret>>

\* lines 31-53, an exception after the rename (cog_translate fails): it is
\* swallowed, and the output path holds nothing or a truncated file
CogTranslateFails ==
    /\ pc = "cog_translate"
    /\ file' \in {Missing, Truncated}
    /\ converted' = "failed"
    /\ pc' = "cog_unlink"
    /\ UNCHANGED <<err, cfgVars, patternVars, sizesVars, walkVars, change_mask,
                   ghostVars, result, pairVars, tmp, original, cog_ret>>

\* lines 54-56: tmp_file_path.unlink() and return True; create then returns
\* the path and the array, line 169
CogUnlink ==
    /\ pc = "cog_unlink"
    /\ tmp.exists
    /\ tmp' = Missing
    /\ cog_ret' = "True"
    /\ result' = IF entry = "create" THEN bands ELSE result
    /\ pc' = "returned"
    /\ UNCHANGED <<err, cfgVars, patternVars, sizesVars, walkVars, change_mask,
                   ghostVars, pairVars, file, original, converted>>

\* line 54 when there is no tmp file: unlink raises FileNotFoundError
CogUnlinkFails ==
    /\ pc = "cog_unlink"
    /\ ~tmp.exists
    /\ err' = "FileNotFoundError"
    /\ pc' = "raised"
    /\ UNCHANGED <<cfgVars, patternVars, sizesVars, walkVars, change_mask,
                   ghostVars, result, pairVars, fileVars>>

\* the rasters a direct call of to_cog finds at the path: up to MaxBands
\* layers of one pixel, converted before or not
CogImages ==
    { [exists |-> TRUE, layers |-> l,
       descs |-> [b \in 1 .. Len(l) |-> NoDescription], cog |-> c] :
         l \in UNION { [1 .. n -> [Pixels(1, 1) -> 1 .. 3]] :
                          n \in 1 .. MaxBands },
         c \in BOOLEAN }

\* A call to_cog(path_to_image): the path holds an image or nothing, and a
\* file left over from an earlier run may be at the tmp path.
InitCog ==
    /\ BlankPattern /\ BlankSizes /\ BlankWalk
    /\ err = "none" /\ change_mask = {} /\ applied = <<>> /\ mask_runs = 0
    /\ result = <<>> /\ run = 1 /\ prev = <<>>
    /\ entry = "to_cog" /\ pc = "cog_rename"
    /\ self = TestImage(1, 1)
    /\ ub = "wrap"
    /\ args = DefaultArgs
    /\ file \in CogImages \cup {Missing}
    /\ tmp \in {Missing, Truncated}
    /\ original = file
    /\ converted = "none"
    /\ cog_ret = "none"

NextCog ==
    \/ CogRename
    \/ CogRenameFails
    \/ CogTranslate
    \/ CogTranslateFails
    \/ CogUnlink
    \/ CogUnlinkFails

SpecCog == InitCog /\ [][NextCog]_vars

\* ------------------------------------------- create with its output options
\* the lists of band descriptions a caller passes, besides None
MaxDesc == 3
DescLists == { DescList([b \in 1 .. d |-> b]) : d \in 0 .. MaxDesc }

\* A call GeoMockImage(xsize, ysize, num_bands, data_type, image_type, nodata,
\* nodata_fill, cog).create(seed, noise_seed, band_desc=band_desc), both seeds
\* given, with a nodata value the data type can hold.
InitWrite ==
    /\ BlankPattern /\ BlankSizes /\ BlankWalk /\ BlankRest
    /\ entry = "create" /\ pc = "create"
    /\ \E nodata \in NodataArgs :
          self \in [xsize : 1 .. MaxX, ysize : 1 .. MaxY,
                    num_bands : 1 .. MaxBands, data_type : DataTypes,
                    image_type : {"optical", "SAR"},
                    nodata : {NodataOf(nodata)},
                    nodata_fill : 0 .. MaxFill, cog : BOOLEAN]
    /\ ub = "wrap"
    /\ args \in [seed : {1}, noise_seed : {1}, noise_intensity : {1},
                 change_pixels : {0}, band_desc : DescLists \cup {NoDesc}]

NextWrite ==
    \/ RandomShapes
    \/ SynthBand
    \/ CreateReturn
    \/ CreateToCog
    \/ CogRename
    \/ CogTranslate
    \/ CogTranslateFails
    \/ CogUnlink

SpecWrite == InitWrite /\ [][NextWrite]_vars

\* what create wrote to the image's path, before to_cog touched it
WrittenFile == IF self.cog THEN original ELSE file

\* C12: after create with nodata_fill = k and nodata = v every band of the
\* returned array holds v (0 when nodata was given as -1) at every pixel of
\* rows 0..min(k, ysize)-1 and columns 0..min(k, xsize)-1, and the file was
\* written with the same values.
C12_NodataBlockFilled ==
    (entry = "create" /\ pc = "returned") =>
        LET k == self.nodata_fill
            rows == IF k < self.ysize THEN k ELSE self.ysize
            cols == IF k < self.xsize THEN k ELSE self.xsize
            v == IF self.nodata = NoNodata THEN 0 ELSE self.nodata
        IN /\ Len(result) = self.num_bands
           /\ \A b \in 1 .. self.num_bands :
                 \A y \in 0 .. rows - 1, x \in 0 .. cols - 1 :
                    result[b][<<y, x>>] = v
           /\ WrittenFile.exists
           /\ WrittenFile.layers = result

\* a call with nodata = 5 and a fill wider than the image is high but not than
\* it is wide has returned, with a pixel right of the block left as it was
C12_Witness ==
    /\ entry = "create"
    /\ pc = "returned"
    /\ self.nodata = 5
    /\ self.nodata_fill = 2
    /\ self.ysize = 1
    /\ self.xsize = 3
    /\ self.num_bands = MaxBands
    /\ result[MaxBands][<<0, 1>>] = 5
    /\ result[MaxBands][<<0, 2>>] # 5

\* C13: when band_desc has fewer or more entries than there are bands, create
\* does not abort: every band is written, the path and the array are
\* returned, and a band without a matching entry gets no description.
C13_DescMismatchIsHarmless ==
    (/\ entry = "create"
     /\ args.band_desc.given
     /\ Len(args.band_desc.list) # self.num_bands) =>
        /\ err = "none"
        /\ pc # "raised"
        /\ (pc = "band_loop" /\ band_idx >= self.num_bands) =>
              ENABLED (CreateReturn \/ CreateToCog)
        /\ pc = "returned" =>
              /\ Len(result) = self.num_bands
              /\ Len(WrittenFile.layers) = self.num_bands
              /\ \A b \in 1 .. self.num_bands :
                    WrittenFile.descs[b] =
                        IF b <= Len(args.band_desc.list)
                        THEN args.band_desc.list[b]
                        ELSE NoDescription

\* a call with one description for several bands has returned
C13_Witness ==
    /\ entry = "create"
    /\ pc = "returned"
    /\ args.band_desc.given
    /\ Len(args.band_desc.list) = 1
    /\ self.num_bands = MaxBands
    /\ WrittenFile.descs[1] = 1
    /\ WrittenFile.descs[MaxBands] = NoDescription

\* C14: for an image stored at the path, whenever to_cog returns True the
\* converted image is at the path and the tmp file is gone, and when the
\* conversion step fails the original image is not lost.
C14_TrueMeansConverted ==
    (entry = "to_cog" /\ original.exists) =>
        /\ cog_ret = "True" =>
              /\ file.exists
              /\ file.cog
              /\ file.layers = original.layers
              /\ ~tmp.exists
        /\ (pc \in {"returned", "raised"} /\ converted = "failed") =>
              (file = original \/ tmp = original)

\* --------------------------------------------- claims about the random walk
\* a direct call of get_change_spot_indices
WalkCall == entry = "get_change_spot_indices"

\* C15: every pixel appended to a walk path or to the changed-pixel collection
\* lies inside the grid, 0 <= y < ysize and 0 <= x < xsize.
C15_RecordedInsideGrid ==
    WalkCall =>
        /\ change_pixels_set \subseteq Pixels(self.ysize, self.xsize)
        /\ \A k \in 1 .. Len(pxls) : pxls[k] \in Pixels(self.ysize, self.xsize)

\* the number of moves between two pixels
Distance(p, q) ==
    (IF p[1] > q[1] THEN p[1] - q[1] ELSE q[1] - p[1])
        + (IF p[2] > q[2] THEN p[2] - q[2] ELSE q[2] - p[2])

\* the path and the step counter of the spot that is being grown
C16_PathInv ==
    (WalkCall /\ pc = "walk") =>
        /\ next_step <= spot_sizes[i]
        /\ Len(pxls) - 1 <= next_step
        /\ \A k \in 2 .. Len(pxls) : Distance(pxls[k], pxls[k - 1]) = 1

\* what one step of the program does to the walk
C16_StepInv ==
    WalkCall =>
        \* a spot is left only after spot_sizes[i] draws
        /\ (pc = "walk" /\ (pc' # "walk" \/ i' # i)) =>
              next_step = spot_sizes[i]
        \* a draw uses up one step, and appends one pixel or none
        /\ (pc = "walk" /\ pc' = "walk" /\ i' = i) =>
              /\ next_step' = next_step + 1
              /\ \/ pxls' = pxls /\ change_pixels_set' = change_pixels_set
                 \/ /\ Len(pxls') = Len(pxls) + 1
                    /\ change_pixels_set' =
                          change_pixels_set \cup {pxls'[Len(pxls')]}
        \* a seed pixel is drawn without being recorded
        /\ (pc' = "walk" /\ (pc # "walk" \/ i' # i)) =>
              /\ Len(pxls') = 1
              /\ change_pixels_set' = change_pixels_set

\* C16: a spot of size S makes exactly S direction draws, a dropped draw uses
\* up a step without extending the path, the spot records at most S pixels,
\* each one step from the previous path pixel, and the seed pixel is recorded
\* only when a step lands on it.
C16_WalkShape == [](C16_PathInv) /\ [][C16_StepInv]_vars

\* a spot of two steps is exhausted with one draw dropped and one recorded,
\* and its seed pixel is not recorded
C16_Witness ==
    /\ WalkCall
    /\ pc = "walk"
    /\ spot_sizes[i] = 2
    /\ next_step = 2
    /\ Len(pxls) = 2
    /\ pxls[1] \notin change_pixels_set

\* C17: with a budget above xsize * ysize get_change_spot_indices neither
\* returns nor raises.
C17_NeverReturns ==
    (WalkCall /\ Budget > self.xsize * self.ysize) =>
        pc \notin {"returned", "raised"}

\* C18: whenever the loop condition is evaluated the number of distinct
\* recorded pixels is at most the budget and remaining_pxls is not negative,
\* a retry round grows one spot of exactly the shortfall, and the loop exits
\* only with the count equal to the budget.
C18_NoOvershoot ==
    WalkCall =>
        /\ Cardinality(change_pixels_set) <= Budget
        /\ remaining_pxls >= 0
        /\ (pc = "indices" /\ spot_sizes # spot_sizes_orig) =>
              /\ remaining_pxls = Budget - Cardinality(change_pixels_set)
              /\ spot_sizes = <<remaining_pxls>>
        /\ pc \in {"returned", "raised"} =>
              /\ remaining_pxls = 0
              /\ Cardinality(change_pixels_set) = Budget

\* the loop condition is evaluated for a retry round: two spots of one pixel
\* recorded the same pixel, and the shortfall of 1 is the only spot
C18_Witness ==
    /\ WalkCall
    /\ pc = "indices"
    /\ Budget <= self.xsize * self.ysize
    /\ Len(spot_sizes_orig) = 2
    /\ remaining_pxls = 1
    /\ spot_sizes = <<1>>
    /\ Cardinality(change_pixels_set) = 1
====
